---- MODULE Spec2Model ----
(***************************************************************************)
(* Model of the payment agent of the x402 gateway (src/src/agent.ts), the  *)
(* tool registry it calls (src/src/mcp-server.ts) and the backend client   *)
(* behind the tools (src/unnamed/part_000).                                *)
(*                                                                         *)
(* One CircularPayAgent instance serves every connection.  Each inbound    *)
(* message starts one run of onMessage; a run advances from one await to   *)
(* the next in one step, and the steps of different runs interleave.       *)
(***************************************************************************)
EXTENDS Naturals, Sequences, FiniteSets

(***************************************************************************)
(* Bounds of the model.                                                    *)
(***************************************************************************)
MaxRuns == 2       \* call_tool / list_tools messages that reach the MCP client
NumIds == 2        \* distinct values crypto.randomUUID().slice(0, 8) can take

\* The connections to the agent.
Conns == {"c1", "c2"}
ConfirmationIds == 1..NumIds

(***************************************************************************)
(* The tool registry: name -> price in 1/10000 USD, 0 for a free tool.     *)
(***************************************************************************)
ToolNames ==
    {"check_wallet", "get_wallet", "get_balance", "send_transaction",
     "get_analytics", "get_transaction_history"}

\* A slip: check_wallet registered with paidTool.
EveryToolPriced(tool) ==
    CASE tool = "check_wallet" -> 10
      [] tool = "get_wallet" -> 10
      [] tool = "get_balance" -> 5
      [] tool = "send_transaction" -> 100
      [] tool = "get_analytics" -> 50
      [] tool = "get_transaction_history" -> 20

Price(tool) ==
    CASE tool = "check_wallet" -> 0
      [] tool = "get_wallet" -> 10
      [] tool = "get_balance" -> 5
      [] tool = "send_transaction" -> 100
      [] tool = "get_analytics" -> 50
      [] tool = "get_transaction_history" -> 20

IsPriced(tool) == tool \in ToolNames /\ Price(tool) > 0

\* The tool names the modelled callers put in a call_tool message.
CalledTools == {"check_wallet", "send_transaction", "no_such_tool"}

\* The calls the modelled callers make: a tool name and arguments that pass
\* the tool's input schema ("valid") or fail it ("invalid"; parsed.args || {}
\* makes absent arguments an empty object, which every schema rejects).
Calls ==
    {<<tool, "valid">> : tool \in CalledTools} \cup {<<"send_transaction", "invalid">>}

(***************************************************************************)
(* Inbound messages.  shape: "binary" is a non-string frame, "malformed"   *)
(* a string JSON.parse rejects, "null" the JSON text null, "scalar" a JSON *)
(* number, string or boolean (reading its type gives undefined), "object"  *)
(* a JSON object with the fields type, tool, args and confirmationId.      *)
(*                                                                         *)
(* confirmationId is used as a property key of the confirmations object:   *)
(* kind "id" is a value randomUUID can produce, "undefined" stands for a   *)
(* message without the field and "__proto__" for a key every object        *)
(* inherits from Object.prototype with a value that is not a function.     *)
(***************************************************************************)
Key(kind, id) == [kind |-> kind, id |-> id]
NoId == Key("undefined", 0)
InheritedObjectKey == Key("__proto__", 0)
MessageKeys ==
    {Key("id", id) : id \in ConfirmationIds}
    \cup {NoId, InheritedObjectKey}

Msg(shape, type, tool, key) ==
    [shape |-> shape, type |-> type, tool |-> tool, args |-> "none", confirmationId |-> key]

CallTool(tool, args) == [Msg("object", "call_tool", tool, NoId) EXCEPT !.args = args]

NoMsg == Msg("none", "none", "none", NoId)

Messages ==
    {Msg("binary", "none", "none", NoId),
     Msg("malformed", "none", "none", NoId),
     Msg("null", "none", "none", NoId),
     Msg("scalar", "none", "none", NoId)}
    \cup {Msg("object", t, "none", k) : t \in {"confirm", "cancel"}, k \in MessageKeys}
    \cup {CallTool(call[1], call[2]) : call \in Calls}
    \cup {Msg("object", t, "none", NoId) : t \in {"list_tools", "ping"}}

\* The modelled clients: every connection sends confirm, cancel and the
\* other messages; the calls and list_tools come from the connections in
\* Callers, the other connection being a second client that watches the
\* events and answers them.
Callers == {"c1"}

Inbound(conn) ==
    {message \in Messages : message.type \in {"call_tool", "list_tools"} => conn \in Callers}

VARIABLES
    started,        \* onStart has returned
    x402Client,     \* this.x402Client is set
    confirmations,  \* this.confirmations: id -> the run whose promise the stored resolver settles, 0 = no entry
    runs,           \* the runs of onMessage that reached the MCP client, in arrival order
    last,           \* the latest inbound message (or GET /pricing) and the replies sent
                    \* before the first await of its handler
    broadcasts,     \* the payment_required events broadcast so far, in order
    closed          \* the connections whose onClose has run

vars == <<started, x402Client, confirmations, runs, last, broadcasts, closed>>

(***************************************************************************)
(* A run: conn and message as received; pc is the await it is suspended    *)
(* at ("gate": the first callTool, "awaiting": the promise of              *)
(* onPaymentRequired, "paying": the callTool that carries the payment,     *)
(* "handler": the backend call of the tool's handler, "listing":           *)
(* listTools, "done": onMessage returned); promise is the state of the     *)
(* promise onPaymentRequired returned; cid the confirmationId it drew      *)
(* (0 = none); timer the state of its setTimeout callback; handlerCalls    *)
(* how often the tool's handler was entered for the run; sent the replies  *)
(* conn.send delivered for it.  Two fields are history only: resolvedBy is *)
(* what settled the promise ("confirm", "cancel" or "timeout"), asked the  *)
(* first confirm or cancel message that named the run's confirmationId     *)
(* while its promise was unsettled.                                        *)
(***************************************************************************)
Run(conn, message, at) ==
    [conn |-> conn, type |-> message.type, tool |-> message.tool, args |-> message.args,
     pc |-> at,
     promise |-> "none", cid |-> 0, timer |-> "none", handlerCalls |-> 0,
     sent |-> <<>>, resolvedBy |-> "none", asked |-> "none"]

RunIds == 1..Len(runs)

\* What conn.send delivers: the reply's type, its connection, the tool it names
\* and its text (the result text or the error message).
Reply(type, to, tool, text) == [type |-> type, to |-> to, tool |-> tool, text |-> text]

Received(conn, message, replies) == [body |-> message, sent |-> replies]

Init ==
    /\ started = FALSE
    /\ x402Client = FALSE
    /\ confirmations = [k \in ConfirmationIds |-> 0]
    /\ runs = <<>>
    /\ last = Received("none", NoMsg, <<>>)
    /\ broadcasts = <<>>
    /\ closed = {}

(***************************************************************************)
(* onStart: x402Client is set only when CLIENT_WALLET_PK is present and    *)
(* the connection to the MCP server succeeds.  Messages are delivered      *)
(* after onStart has returned.                                             *)
(***************************************************************************)
onStart(ok) ==
    /\ ~started
    /\ started' = TRUE
    /\ x402Client' = ok
    /\ UNCHANGED <<confirmations, runs, last, broadcasts, closed>>

(***************************************************************************)
(* The payment gate in front of a tool: what the MCP server answers to a   *)
(* callTool that carries a payment (paid) or none.                         *)
(***************************************************************************)
Gate(tool, paid) ==
    IF tool \notin ToolNames THEN "not_found"
    ELSE IF Price(tool) = 0 \/ paid THEN "execute"
    ELSE "payment_required"

\* The dispatch in front of the gate: the tool is looked up and the
\* arguments are checked against its input schema before anything runs.
Validate(tool, args) ==
    IF tool \notin ToolNames THEN "not_found"
    ELSE IF args = "valid" THEN "valid"
    ELSE "invalid_arguments"

\* The requirements list the gate hands to the confirmation callback.
Requirements(tool) == <<[amount |-> Price(tool), tool |-> tool]>>

(***************************************************************************)
(* The values the resolver is called with.                                 *)
(***************************************************************************)
ConfirmValue == TRUE

\* A slip: cancel accepts instead of rejecting.
CancelAccepts == TRUE

CancelValue == FALSE

\* A slip: the timer accepts instead of rejecting.
TimeoutAccepts == TRUE

TimeoutValue == FALSE

(***************************************************************************)
(* The run resumes after its promise settled: accepted, the MCP client     *)
(* calls the tool again with the payment; declined, callTool returns an    *)
(* error result, which onMessage sends as the run's reply.                 *)
(***************************************************************************)
\* A slip: the test of result.isError inverted.
ReplyTypeSwapped(isError) == IF isError THEN "tool_result" ELSE "tool_error"

\* A slip: every result is sent as tool_result.
ReplyTypeResult(isError) == "tool_result"

ReplyType(isError) == IF isError THEN "tool_error" ELSE "tool_result"

\* The result callTool returns when the confirmation callback returned false.
DeclinedIsError == TRUE

Resume(r, accepted) ==
    IF accepted
    THEN [r EXCEPT !.promise = "accepted", !.pc = "paying"]
    ELSE [r EXCEPT !.promise = "rejected", !.pc = "done",
                   !.sent = Append(@, Reply(ReplyType(DeclinedIsError), r.conn, r.tool,
                                            "declined"))]

\* A slip: a resolver that settles its run again when called a second time.
SettledAgain(rs, m, accepted, by) ==
    IF rs[m].promise = "none" THEN rs
    ELSE [rs EXCEPT ![m] = [Resume(@, accepted) EXCEPT !.resolvedBy = by]]

\* resolve(accepted) of run m's promise, called by `by`: a promise settles
\* once, a second call of its resolver changes nothing.
Settled(rs, m, accepted, by) ==
    IF rs[m].promise # "pending" THEN rs
    ELSE [rs EXCEPT ![m] = [Resume(@, accepted) EXCEPT !.resolvedBy = by]]

\* History: the runs whose confirmationId a confirm or cancel names while
\* their promise is unsettled remember the first such message.
RECURSIVE AskedFrom(_, _, _, _)
AskedFrom(rs, m, id, type) ==
    IF m > Len(rs) THEN rs
    ELSE AskedFrom(IF rs[m].cid = id /\ rs[m].promise = "pending" /\ rs[m].asked = "none"
                   THEN [rs EXCEPT ![m].asked = type]
                   ELSE rs,
                   m + 1, id, type)

Asked(rs, id, type) == AskedFrom(rs, 1, id, type)

(***************************************************************************)
(* this.confirmations[key]: the resolver stored under the key, a property  *)
(* inherited from Object.prototype, or undefined.                          *)
(***************************************************************************)
Lookup(key) ==
    IF key.kind = "id"
    THEN IF confirmations[key.id] # 0 THEN "resolver" ELSE "undefined"
    ELSE IF key = InheritedObjectKey THEN "object"
    ELSE "undefined"

ParseFailure(conn) == Reply("error", conn, "none", "Failed to parse message")

(***************************************************************************)
(* onMessage, up to its first await.                                       *)
(***************************************************************************)
\* typeof message !== "string": return.
onMessageBinary(conn, message) ==
    /\ message.shape = "binary"
    /\ last' = Received(conn, message, <<>>)
    /\ UNCHANGED <<confirmations, runs, broadcasts>>

\* A slip: a catch that only logs.
onMessageThrowsSilently(conn, message) ==
    /\ message.shape \in {"malformed", "null"}
    /\ last' = Received(conn, message, <<>>)
    /\ UNCHANGED <<confirmations, runs, broadcasts>>

\* JSON.parse throws, or parsed is null and reading parsed.type throws: the
\* outer catch replies.
onMessageThrows(conn, message) ==
    /\ message.shape \in {"malformed", "null"}
    /\ last' = Received(conn, message, <<ParseFailure(conn)>>)
    /\ UNCHANGED <<confirmations, runs, broadcasts>>

\* A slip: the rejection is sent on the connection the cancel arrived on.
onResolveAnswersSender(conn, message, accepted) ==
    LET key == message.confirmationId
        f == Lookup(key)
        marked == IF key.kind = "id" THEN Asked(runs, key.id, message.type) ELSE runs
        settled == Settled(marked, confirmations[key.id], accepted, message.type)
    IN  /\ UNCHANGED broadcasts
        /\ IF f = "object"
           THEN /\ last' = Received(conn, message, <<ParseFailure(conn)>>)
                /\ UNCHANGED <<confirmations, runs>>
           ELSE /\ last' = Received(conn, message, <<>>)
                /\ IF f = "resolver"
                   THEN /\ runs' = IF settled[confirmations[key.id]].sent = <<>>
                                   THEN settled
                                   ELSE [settled EXCEPT ![confirmations[key.id]].sent[1].to = conn]
                        /\ confirmations' = [confirmations EXCEPT ![key.id] = 0]
                   ELSE /\ runs' = marked
                        /\ UNCHANGED confirmations

\* case "confirm" / case "cancel":
\*   this.confirmations[parsed.confirmationId]?.(accepted);
\*   delete this.confirmations[parsed.confirmationId];
\* Calling a value that is neither undefined nor a function throws, inside
\* the outer try.
onResolve(conn, message, accepted) ==
    LET key == message.confirmationId
        f == Lookup(key)
        marked == IF key.kind = "id" THEN Asked(runs, key.id, message.type) ELSE runs
    IN  /\ UNCHANGED broadcasts
        /\ IF f = "object"
           THEN /\ last' = Received(conn, message, <<ParseFailure(conn)>>)
                /\ UNCHANGED <<confirmations, runs>>
           ELSE /\ last' = Received(conn, message, <<>>)
                /\ IF f = "resolver"
                   THEN /\ runs' = Settled(marked, confirmations[key.id], accepted,
                                           message.type)
                        /\ confirmations' = [confirmations EXCEPT ![key.id] = 0]
                   ELSE /\ runs' = marked
                        /\ UNCHANGED confirmations

onMessageConfirm(conn, message) ==
    /\ message.shape = "object" /\ message.type = "confirm"
    /\ onResolve(conn, message, ConfirmValue)

onMessageCancel(conn, message) ==
    /\ message.shape = "object" /\ message.type = "cancel"
    /\ onResolve(conn, message, CancelValue)

NotInitialized(type) ==
    IF type = "call_tool" THEN "Agent not initialized - missing CLIENT_WALLET_PK"
    ELSE "Agent not initialized"

\* A slip: the request is passed on without the test of this.x402Client.
onMessageRequestUnguarded(conn, message) ==
    /\ message.shape = "object" /\ message.type \in {"call_tool", "list_tools"}
    /\ UNCHANGED <<confirmations, broadcasts>>
    /\ Len(runs) < MaxRuns
    /\ last' = Received(conn, message, <<>>)
    /\ runs' = Append(runs, Run(conn, message,
                                IF message.type = "call_tool" THEN "gate" ELSE "listing"))

\* case "call_tool" / case "list_tools": without x402Client an error reply,
\* else the request goes to the MCP client and the run waits for it.
onMessageRequest(conn, message) ==
    /\ message.shape = "object" /\ message.type \in {"call_tool", "list_tools"}
    /\ UNCHANGED <<confirmations, broadcasts>>
    /\ IF ~x402Client
       THEN /\ last' = Received(conn, message,
                                <<Reply("error", conn, "none", NotInitialized(message.type))>>)
            /\ UNCHANGED runs
       ELSE /\ Len(runs) < MaxRuns
            /\ last' = Received(conn, message, <<>>)
            /\ runs' = Append(runs, Run(conn, message,
                                        IF message.type = "call_tool" THEN "gate" ELSE "listing"))

\* default: logged.
onMessageDefault(conn, message) ==
    /\ message.shape \in {"object", "scalar"}
    /\ message.type \notin {"confirm", "cancel", "call_tool", "list_tools"}
    /\ last' = Received(conn, message, <<>>)
    /\ UNCHANGED <<confirmations, runs, broadcasts>>

onMessageCases(conn, message) ==
    \/ onMessageBinary(conn, message)
    \/ onMessageThrows(conn, message)
    \/ onMessageConfirm(conn, message)
    \/ onMessageCancel(conn, message)
    \/ onMessageRequest(conn, message)
    \/ onMessageDefault(conn, message)

\* A slip: a session that takes the next message only when no earlier run
\* of onMessage is suspended.
onMessageOneAtATime(conn, message) ==
    /\ started /\ conn \notin closed
    /\ \A m \in RunIds : runs[m].pc = "done"
    /\ UNCHANGED <<started, x402Client, closed>>
    /\ onMessageCases(conn, message)

onMessage(conn, message) ==
    /\ started /\ conn \notin closed
    /\ UNCHANGED <<started, x402Client, closed>>
    /\ onMessageCases(conn, message)

(***************************************************************************)
(* GET /pricing: the Worker answers with a fixed listing, one entry per    *)
(* tool with its price as text.  The listing is kept as replies of type    *)
(* "price" to the HTTP caller.                                             *)
(***************************************************************************)
\* A slip: a listing that was not updated when send_transaction was repriced.
PricingToolsStale ==
    <<Reply("price", "http", "check_wallet", "free"),
      Reply("price", "http", "get_wallet", "$0.001"),
      Reply("price", "http", "get_balance", "$0.0005"),
      Reply("price", "http", "get_transaction_history", "$0.002"),
      Reply("price", "http", "get_analytics", "$0.005"),
      Reply("price", "http", "send_transaction", "$0.001")>>

PricingTools ==
    <<Reply("price", "http", "check_wallet", "free"),
      Reply("price", "http", "get_wallet", "$0.001"),
      Reply("price", "http", "get_balance", "$0.0005"),
      Reply("price", "http", "get_transaction_history", "$0.002"),
      Reply("price", "http", "get_analytics", "$0.005"),
      Reply("price", "http", "send_transaction", "$0.01")>>

GetPricing == Msg("http", "pricing", "none", NoId)

fetchPricing ==
    /\ last' = Received("http", GetPricing, PricingTools)
    /\ UNCHANGED <<started, x402Client, closed, confirmations, runs, broadcasts>>

\* onClose: logs.  The connection delivers no message afterwards.
onClose(conn) ==
    /\ started /\ conn \notin closed
    /\ closed' = closed \cup {conn}
    /\ UNCHANGED <<started, x402Client, confirmations, runs, last, broadcasts>>

(***************************************************************************)
(* The first callTool of run m returns.                                    *)
(***************************************************************************)
\* A slip: the error of the inner catch is sent again by the outer catch.
ToolNotFoundTwice(m, throws) ==
    /\ runs[m].pc = "gate"
    /\ Validate(runs[m].tool, runs[m].args) = "not_found"
    /\ runs' = [runs EXCEPT ![m].pc = "done",
                            ![m].sent = @ \o <<Reply("error", runs[m].conn, "none", "not found"),
                                               ParseFailure(runs[m].conn)>>]
    /\ UNCHANGED <<started, x402Client, closed, confirmations, last, broadcasts>>

\* Unknown tool: the MCP client throws or returns an error result.
ToolNotFound(m, throws) ==
    /\ runs[m].pc = "gate"
    /\ Validate(runs[m].tool, runs[m].args) = "not_found"
    /\ runs' = [runs EXCEPT ![m].pc = "done",
                            ![m].sent = Append(@,
                                IF throws
                                THEN Reply("error", runs[m].conn, "none", "not found")
                                ELSE Reply(ReplyType(TRUE), runs[m].conn, runs[m].tool, "not found"))]
    /\ UNCHANGED <<started, x402Client, closed, confirmations, last, broadcasts>>

\* A slip: arguments that fail the schema reach the handler.
InvalidArgumentsPass(m, throws) ==
    /\ runs[m].pc = "gate"
    /\ Validate(runs[m].tool, runs[m].args) = "invalid_arguments"
    /\ runs' = [runs EXCEPT ![m].pc = "handler", ![m].handlerCalls = @ + 1]
    /\ UNCHANGED <<started, x402Client, closed, confirmations, last, broadcasts>>

\* The arguments fail the tool's input schema: the MCP client throws or
\* returns an error result; neither the gate nor the handler is reached.
InvalidArguments(m, throws) ==
    /\ runs[m].pc = "gate"
    /\ Validate(runs[m].tool, runs[m].args) = "invalid_arguments"
    /\ runs' = [runs EXCEPT ![m].pc = "done",
                            ![m].sent = Append(@,
                                IF throws
                                THEN Reply("error", runs[m].conn, "none", "invalid arguments")
                                ELSE Reply(ReplyType(TRUE), runs[m].conn, runs[m].tool,
                                           "invalid arguments"))]
    /\ UNCHANGED <<started, x402Client, closed, confirmations, last, broadcasts>>

\* The gate lets the call through: the handler is entered and calls the backend.
EnterHandler(r) == [r EXCEPT !.pc = "handler", !.handlerCalls = @ + 1]

FreeCall(m) ==
    /\ runs[m].pc = "gate"
    /\ Validate(runs[m].tool, runs[m].args) = "valid"
    /\ Gate(runs[m].tool, FALSE) = "execute"
    /\ runs' = [runs EXCEPT ![m] = EnterHandler(@)]
    /\ UNCHANGED <<started, x402Client, closed, confirmations, last, broadcasts>>

\* A slip: a table that holds one resolver at a time.
onPaymentRequiredAlone(m, id) ==
    /\ runs[m].pc = "gate"
    /\ Validate(runs[m].tool, runs[m].args) = "valid"
    /\ Gate(runs[m].tool, FALSE) = "payment_required"
    /\ broadcasts' = Append(broadcasts,
                            [type |-> "payment_required", confirmationId |-> id,
                             requirements |-> Requirements(runs[m].tool),
                             to |-> Conns \ closed, run |-> m])
    /\ confirmations' = [[k \in ConfirmationIds |-> 0] EXCEPT ![id] = m]
    /\ runs' = [runs EXCEPT ![m].pc = "awaiting", ![m].promise = "pending",
                            ![m].cid = id, ![m].timer = "armed"]
    /\ UNCHANGED <<started, x402Client, closed, last>>

(***************************************************************************)
(* onPaymentRequired: the gate asked for payment.  id is the value of      *)
(* crypto.randomUUID().slice(0, 8).                                        *)
(***************************************************************************)
onPaymentRequired(m, id) ==
    /\ runs[m].pc = "gate"
    /\ Validate(runs[m].tool, runs[m].args) = "valid"
    /\ Gate(runs[m].tool, FALSE) = "payment_required"
    /\ broadcasts' = Append(broadcasts,
                            [type |-> "payment_required", confirmationId |-> id,
                             requirements |-> Requirements(runs[m].tool),
                             to |-> Conns \ closed, run |-> m])
    /\ confirmations' = [confirmations EXCEPT ![id] = m]
    /\ runs' = [runs EXCEPT ![m].pc = "awaiting", ![m].promise = "pending",
                            ![m].cid = id, ![m].timer = "armed"]
    /\ UNCHANGED <<started, x402Client, closed, last>>

\* The setTimeout callback of run m's confirmation, 60 seconds after it was armed.
Timeout(m) ==
    /\ runs[m].timer = "armed"
    /\ LET id == runs[m].cid
       IN  IF confirmations[id] # 0
           THEN /\ confirmations' = [confirmations EXCEPT ![id] = 0]
                /\ runs' = [Settled(runs, m, TimeoutValue, "timeout")
                               EXCEPT ![m].timer = "fired"]
           ELSE /\ runs' = [runs EXCEPT ![m].timer = "fired"]
                /\ UNCHANGED confirmations
    /\ UNCHANGED <<started, x402Client, closed, last, broadcasts>>

\* The callTool that carries the payment reaches the tool.
PaidCall(m) ==
    /\ runs[m].pc = "paying"
    /\ Gate(runs[m].tool, TRUE) = "execute"
    /\ runs' = [runs EXCEPT ![m] = EnterHandler(@)]
    /\ UNCHANGED <<started, x402Client, closed, confirmations, last, broadcasts>>

(***************************************************************************)
(* The backend (the Circular Protocol RPC) as the handlers see it: fetch   *)
(* rejects, or the response has a non-success status, or a success status  *)
(* with a body that does not parse, or with a body that parses ("exists",  *)
(* "absent": the exists field of the body; "no_field": a body without it). *)
(***************************************************************************)
BackendOutcomes ==
    {"exists", "absent", "no_field", "non_success", "transport_failure", "unparseable_body"}

\* fetch rejects, !response.ok throws, response.json() rejects.
BackendThrows(outcome) ==
    outcome \in {"transport_failure", "non_success", "unparseable_body"}

\* CircularClient.checkWallet: data.exists ?? false, and false from the catch.
checkWallet(outcome) ==
    IF BackendThrows(outcome) THEN FALSE
    ELSE outcome = "exists"

\* A slip: a check_wallet whose client lets the error through to the handler's catch.
HandlerIsErrorAlways(tool, outcome) == BackendThrows(outcome)

\* The handlers' try/catch: isError is set when the client call threw.
HandlerIsError(tool, outcome) ==
    IF tool = "check_wallet" THEN FALSE ELSE BackendThrows(outcome)

\* content[0].text of the handler's result.
HandlerText(tool, outcome) ==
    IF tool = "check_wallet"
    THEN IF checkWallet(outcome) THEN "exists:true" ELSE "exists:false"
    ELSE IF BackendThrows(outcome) THEN "failed" ELSE "ok"

\* A slip: a handler that calls the backend again when the call failed.
HandlerRetries(m, outcome) ==
    /\ runs[m].pc = "handler"
    /\ runs' = IF ~BackendThrows(outcome)
               THEN [runs EXCEPT ![m].pc = "done",
                                 ![m].sent = Append(@, Reply(ReplyType(FALSE), runs[m].conn,
                                                             runs[m].tool,
                                                             HandlerText(runs[m].tool, outcome)))]
               ELSE [runs EXCEPT ![m] = EnterHandler(@)]
    /\ UNCHANGED <<started, x402Client, closed, confirmations, last, broadcasts>>

\* The handler's backend call returns and onMessage sends the result.
HandlerReturns(m, outcome) ==
    /\ runs[m].pc = "handler"
    /\ runs' = [runs EXCEPT ![m].pc = "done",
                            ![m].sent = Append(@,
                                Reply(ReplyType(HandlerIsError(runs[m].tool, outcome)),
                                      runs[m].conn, runs[m].tool,
                                      HandlerText(runs[m].tool, outcome)))]
    /\ UNCHANGED <<started, x402Client, closed, confirmations, last, broadcasts>>

\* listTools returns or throws.
ListToolsReturns(m, ok) ==
    /\ runs[m].pc = "listing"
    /\ runs' = [runs EXCEPT ![m].pc = "done",
                            ![m].sent = Append(@,
                                IF ok THEN Reply("tools_list", runs[m].conn, "none", "tools")
                                ELSE Reply("error", runs[m].conn, "none", "failed"))]
    /\ UNCHANGED <<started, x402Client, closed, confirmations, last, broadcasts>>

Next ==
    \/ \E ok \in BOOLEAN : onStart(ok)
    \/ \E conn \in Conns : \E message \in Inbound(conn) : onMessage(conn, message)
    \/ \E conn \in Conns : onClose(conn)
    \/ fetchPricing
    \/ \E m \in RunIds, throws \in BOOLEAN : ToolNotFound(m, throws)
    \/ \E m \in RunIds, throws \in BOOLEAN : InvalidArguments(m, throws)
    \/ \E m \in RunIds : FreeCall(m)
    \/ \E m \in RunIds, id \in ConfirmationIds : onPaymentRequired(m, id)
    \/ \E m \in RunIds : Timeout(m)
    \/ \E m \in RunIds : PaidCall(m)
    \/ \E m \in RunIds, outcome \in BackendOutcomes : HandlerReturns(m, outcome)
    \/ \E m \in RunIds, ok \in BOOLEAN : ListToolsReturns(m, ok)

Spec == Init /\ [][Next]_vars

(***************************************************************************)
(* Fairness: a timer that is armed expires (setTimeout, 60 seconds), and a *)
(* call the agent made to the MCP server or a handler made to the backend  *)
(* returns or throws.  Nothing obliges a client to send a message.         *)
(***************************************************************************)
CallReturns(m) ==
    /\ m \in RunIds
    /\ \/ \E throws \in BOOLEAN : ToolNotFound(m, throws)
       \/ \E throws \in BOOLEAN : InvalidArguments(m, throws)
       \/ FreeCall(m)
       \/ \E id \in ConfirmationIds : onPaymentRequired(m, id)
       \/ PaidCall(m)
       \/ \E outcome \in BackendOutcomes : HandlerReturns(m, outcome)
       \/ \E ok \in BOOLEAN : ListToolsReturns(m, ok)

TimerExpires(m) == m \in RunIds /\ Timeout(m)

Fairness ==
    \A m \in 1..MaxRuns : WF_vars(TimerExpires(m)) /\ WF_vars(CallReturns(m))

FairSpec == Spec /\ Fairness

(***************************************************************************)
(* Properties.                                                             *)
(***************************************************************************)
\* The payment_required event onPaymentRequired broadcast for run m.
PaymentRequiredFor(m) ==
    \E i \in DOMAIN broadcasts :
        /\ broadcasts[i].run = m
        /\ broadcasts[i].type = "payment_required"
        /\ broadcasts[i].confirmationId = runs[m].cid
        /\ Len(broadcasts[i].requirements) >= 1

\* The call of run m passes the dispatch and is put to the gate.
PutToGate(m) == Validate(runs[m].tool, runs[m].args) = "valid"

HasReply(m, type) == \E i \in DOMAIN runs[m].sent : runs[m].sent[i].type = type

\* C1: the handler of a priced tool is never entered for a call whose
\* payment was not confirmed: unless a confirm settled the call's
\* confirmation, its handler call count is 0, and once the gate has answered
\* the unpaid call a payment_required event has been produced for it.
C1_NoHandlerWithoutConfirm ==
    \A m \in RunIds :
        IsPriced(runs[m].tool) =>
            /\ (runs[m].resolvedBy # "confirm" => runs[m].handlerCalls = 0)
            /\ (PutToGate(m) /\ runs[m].pc # "gate" => PaymentRequiredFor(m) /\ runs[m].cid # 0)

\* A priced call that timed out unconfirmed and ended without its handler.
C1_Witness ==
    \E m \in RunIds :
        /\ IsPriced(runs[m].tool)
        /\ runs[m].pc = "done"
        /\ runs[m].resolvedBy = "timeout"
        /\ runs[m].handlerCalls = 0
        /\ PaymentRequiredFor(m)

\* C2: the handler of one call runs at most once, and exactly once for a
\* priced call that a confirm settled and that has ended, whatever confirm
\* and cancel messages and timer expiries arrive before, during or after it.
C2_HandlerExactlyOnce ==
    \A m \in RunIds :
        /\ runs[m].handlerCalls <= 1
        /\ (IsPriced(runs[m].tool) /\ runs[m].resolvedBy = "confirm"
                /\ runs[m].pc \in {"handler", "done"}
             => runs[m].handlerCalls = 1)

\* A confirmed send_transaction that ended after one handler call, its timer
\* expired since, and the latest message replays a confirm or cancel of its id.
C2_Witness ==
    \E m \in RunIds :
        /\ runs[m].tool = "send_transaction"
        /\ runs[m].resolvedBy = "confirm"
        /\ runs[m].pc = "done"
        /\ runs[m].handlerCalls = 1
        /\ runs[m].timer = "fired"
        /\ last.body.type \in {"confirm", "cancel"}
        /\ last.body.confirmationId = Key("id", runs[m].cid)

IsSettled(r) == r.promise \in {"accepted", "rejected"}

\* What a call's confirmation has delivered: the settled value, who settled
\* it, and for a rejection the reply and the end of the run.
OutcomeKept(m) ==
    /\ runs'[m].promise = runs[m].promise
    /\ runs'[m].resolvedBy = runs[m].resolvedBy
    /\ runs'[m].handlerCalls >= runs[m].handlerCalls
    /\ (runs[m].promise = "rejected" => runs'[m].sent = runs[m].sent /\ runs'[m].pc = "done")
    /\ (runs[m].promise = "accepted" =>
            /\ \A i \in DOMAIN runs'[m].sent : runs'[m].sent[i].text # "declined"
            /\ (runs[m].pc = "handler" => runs'[m].pc \in {"handler", "done"}))

\* A step that changes neither the table nor any run, apart from the
\* history fields and the expired timer itself.
Forget(r) == [r EXCEPT !.asked = "none", !.timer = "none"]

NoEffect ==
    /\ confirmations' = confirmations
    /\ Len(runs') = Len(runs)
    /\ \A m \in RunIds : Forget(runs'[m]) = Forget(runs[m])
    /\ broadcasts' = broadcasts

\* The confirm and cancel messages that name id.
ResolveMsgs(id) == {Msg("object", t, "none", Key("id", id)) : t \in {"confirm", "cancel"}}

C4_UnknownIdIgnored ==
    [][\A key \in MessageKeys :
        (/\ Lookup(key) # "resolver"
         /\ \E conn \in Conns, t \in {"confirm", "cancel"} :
                onMessage(conn, Msg("object", t, "none", key)))
        => NoEffect /\ last'.sent = <<>>]_vars

\* C5: a confirmation that got no confirm or cancel is settled false by its
\* own timer when the timer expires, its entry leaves the table, no timer
\* stays armed for its id, and the step does what a cancel of the id would do.
SameAsCancel(m) ==
    LET id == runs[m].cid
    IN  /\ confirmations[id] # 0
        /\ \A n \in RunIds :
            Forget([runs'[n] EXCEPT !.resolvedBy = "none"])
            = Forget([Settled(runs, confirmations[id], CancelValue, "cancel")[n]
                        EXCEPT !.resolvedBy = "none"])

C5_TimeoutResolvesOnce ==
    [][\A m \in RunIds :
        (runs[m].promise = "pending" /\ runs[m].asked = "none" /\ Timeout(m))
        => /\ runs'[m].promise = "rejected"
           /\ runs'[m].resolvedBy = "timeout"
           /\ confirmations'[runs[m].cid] = 0
           /\ \A n \in RunIds : runs'[n].cid = runs[m].cid => runs'[n].timer # "armed"
           /\ SameAsCancel(m)]_vars

\* C6: two calls that await confirmation at the same time have distinct
\* confirmationIds, and a step that settles one of them leaves the other
\* unsettled and its entry in the table.
IsPending(r) == r.promise = "pending"

C6_IndependentConfirmations ==
    /\ [](\A m, n \in RunIds :
            (m # n /\ IsPending(runs[m]) /\ IsPending(runs[n])) => runs[m].cid # runs[n].cid)
    /\ [][\A m, n \in RunIds :
            (m # n /\ IsPending(runs[m]) /\ IsPending(runs[n]) /\ ~IsPending(runs'[m]))
            => /\ IsPending(runs'[n])
               /\ (confirmations[runs[n].cid] = n => confirmations'[runs[n].cid] = n)]_vars

\* C7: a priced call with no proof produces a payment_required event with at
\* least one requirement and a confirmationId no other call was given; once
\* a confirm naming that id arrives while the call awaits it, the confirm
\* settles the call, its handler runs once and the reply relays the
\* handler's result (a tool_result naming the tool when the backend call
\* succeeded).
C7_ConfirmRunsHandler ==
    \A m \in RunIds :
        IsPriced(runs[m].tool) /\ PutToGate(m) =>
            /\ (runs[m].pc # "gate" =>
                    /\ PaymentRequiredFor(m)
                    /\ \A n \in RunIds \ {m} : runs[n].cid # runs[m].cid)
            /\ (runs[m].asked = "confirm" => runs[m].resolvedBy = "confirm")
            /\ (runs[m].resolvedBy = "confirm" /\ runs[m].pc = "done" =>
                    /\ runs[m].handlerCalls = 1
                    /\ Len(runs[m].sent) = 1
                    /\ runs[m].sent[1].tool = runs[m].tool
                    /\ (runs[m].sent[1].text = "ok" => runs[m].sent[1].type = "tool_result"))

\* C8: a call whose confirmationId a cancel named while it awaited
\* confirmation never runs its handler and never gets a tool_result; a call
\* that a cancel or the timeout settled has ended with a single tool_error
\* reply that names the tool, its handler not entered.
Rejection(r) == <<Reply("tool_error", r.conn, r.tool, "declined")>>

C8_CancelRejects ==
    \A m \in RunIds :
        /\ (runs[m].asked = "cancel" =>
                /\ runs[m].handlerCalls = 0
                /\ ~HasReply(m, "tool_result")
                /\ runs[m].resolvedBy # "confirm"
                /\ (runs[m].resolvedBy = "none" => confirmations[runs[m].cid] # m))
        /\ (runs[m].resolvedBy \in {"cancel", "timeout"} =>
                /\ runs[m].pc = "done"
                /\ runs[m].promise = "rejected"
                /\ runs[m].handlerCalls = 0
                /\ runs[m].sent = Rejection(runs[m]))

\* A send_transaction that a cancel settled while it awaited confirmation.
C8_Witness ==
    \E m \in RunIds :
        /\ runs[m].tool = "send_transaction"
        /\ runs[m].asked = "cancel"
        /\ runs[m].resolvedBy = "cancel"
        /\ runs[m].sent = Rejection(runs[m])
        /\ runs[m].handlerCalls = 0

\* The replies a run has got, the payment_required events for it counted in.
Events(m) == {i \in DOMAIN broadcasts : broadcasts[i].run = m}

Terminal(m) == Len(runs[m].sent) + Cardinality(Events(m))

\* The latest message was answered, or left unanswered, before onMessage returned.
AnsweredAtOnce ==
    \/ last.body.shape \in {"malformed", "null"}
    \/ last.body.type \in {"confirm", "cancel"}
    \/ last.body.type \in {"call_tool", "list_tools"} /\ ~x402Client

RunStep(m) ==
    \/ \E throws \in BOOLEAN : ToolNotFound(m, throws)
    \/ \E throws \in BOOLEAN : InvalidArguments(m, throws)
    \/ FreeCall(m)
    \/ \E id \in ConfirmationIds : onPaymentRequired(m, id)
    \/ Timeout(m) /\ runs'[m].pc # runs[m].pc
    \/ PaidCall(m)
    \/ \E outcome \in BackendOutcomes : HandlerReturns(m, outcome)
    \/ \E ok \in BOOLEAN : ListToolsReturns(m, ok)
    \/ \E conn \in Conns, message \in ResolveMsgs(runs[m].cid) :
            onMessage(conn, message) /\ runs'[m].pc # runs[m].pc

\* A call left waiting: its promise is unsettled, the table holds no resolver
\* of it, and its timer has run out or finds no entry under its id.
Orphaned(m) ==
    /\ runs[m].promise = "pending"
    /\ confirmations[runs[m].cid] # m
    /\ (runs[m].timer = "fired" \/ confirmations[runs[m].cid] = 0)

ResolveAny == {Msg("object", t, "none", k) : t \in {"confirm", "cancel"}, k \in MessageKeys}

Requests ==
    {CallTool(call[1], call[2]) : call \in Calls}
        \cup {Msg("object", "list_tools", "none", NoId)}

\* C10: while a call_tool awaits its confirmation the agent takes, on every
\* open connection, every confirm and cancel, for its id or any other, and
\* every call_tool and list_tools (as long as the bound on runs leaves
\* room); a confirm of the
\* id whose resolver the table holds can be taken and settles the call, so
\* the call never waits for a confirm the agent cannot process.
C10_AwaitDoesNotBlock ==
    \A m \in RunIds :
        runs[m].pc = "awaiting" =>
            /\ \A conn \in Conns \ closed, message \in ResolveAny :
                    ENABLED onMessage(conn, message)
            /\ (Len(runs) < MaxRuns =>
                    \A conn \in Conns \ closed, message \in Requests :
                        ENABLED onMessage(conn, message))
            /\ (confirmations[runs[m].cid] = m =>
                    \A conn \in Conns \ closed :
                        ENABLED (/\ onMessage(conn, Msg("object", "confirm", "none",
                                                        Key("id", runs[m].cid)))
                                 /\ runs'[m].promise = "accepted"))

\* A later free call has its tool_result while the earlier priced call still
\* awaits its confirmation.
C10_Witness ==
    \E m, n \in RunIds :
        /\ m < n
        /\ runs[m].pc = "awaiting"
        /\ IsPriced(runs[m].tool)
        /\ runs[n].tool = "check_wallet"
        /\ runs[n].pc = "done"
        /\ HasReply(n, "tool_result")

\* A text frame JSON.parse rejects.
Malformed == Msg("malformed", "none", "none", NoId)

\* The agent takes every message of an open connection, call_tool and list_tools as long as the
\* bound on runs leaves room.
TakesEveryMessage ==
    \A conn \in Conns \ closed, message \in Messages :
        (message.type \in {"call_tool", "list_tools"} /\ x402Client /\ Len(runs) >= MaxRuns)
            \/ ENABLED onMessage(conn, message)

\* C11: a message JSON.parse rejects gets exactly one reply, the error
\* "Failed to parse message" on its own connection; the step changes no
\* confirmation, no run and no broadcast, and afterwards the agent still
\* takes every message.
C11_MalformedOneError ==
    /\ [][\A conn \in Conns :
            onMessage(conn, Malformed)
            => /\ last'.sent = <<ParseFailure(conn)>>
               /\ UNCHANGED <<started, x402Client, closed, confirmations, runs, broadcasts>>]_vars
    /\ [](last.body = Malformed => Len(last.sent) = 1 /\ TakesEveryMessage)

\* A malformed message arrived while a priced call awaits its confirmation,
\* whose resolver is still in the table.
C11_Witness ==
    /\ last.body = Malformed
    /\ Len(last.sent) = 1
    /\ last.sent[1].text = "Failed to parse message"
    /\ \E m \in RunIds : runs[m].pc = "awaiting" /\ confirmations[runs[m].cid] = m

\* C12: the confirmation table belongs to one session (one connection): a
\* payment_required event is delivered only to the connection whose
\* call_tool caused it, and a confirm or cancel settles only a call of the
\* connection it arrived on.
C12_SessionOwnsTable ==
    /\ [](\A i \in DOMAIN broadcasts : broadcasts[i].to = {runs[broadcasts[i].run].conn})
    /\ [][\A conn \in Conns, message \in ResolveAny :
            onMessage(conn, message)
            => \A m \in RunIds :
                    (IsPending(runs[m]) /\ ~IsPending(runs'[m])) => runs[m].conn = conn]_vars

\* C13: once a confirm or cancel has settled a pending confirmation, the
\* timer armed for it is cancelled: it is not armed any more and its
\* callback never runs afterwards.
C13_ResolveCancelsTimer ==
    /\ [](\A m \in RunIds :
            runs[m].resolvedBy \in {"confirm", "cancel"} => runs[m].timer # "armed")
    /\ [][\A m \in RunIds :
            runs[m].resolvedBy \in {"confirm", "cancel"} => ~Timeout(m)]_vars

C15_FreeToolNoConfirmation ==
    /\ [](\A m \in RunIds :
            runs[m].tool = "check_wallet" =>
                /\ runs[m].pc \in {"gate", "handler", "done"}
                /\ runs[m].cid = 0 /\ runs[m].promise = "none" /\ runs[m].timer = "none"
                /\ runs[m].resolvedBy = "none" /\ runs[m].asked = "none"
                /\ Events(m) = {}
                /\ \A k \in ConfirmationIds : confirmations[k] # m
                /\ runs[m].handlerCalls = (IF runs[m].pc = "gate" THEN 0 ELSE 1)
                /\ (runs[m].pc = "done" =>
                        /\ Len(runs[m].sent) = 1
                        /\ runs[m].sent[1].tool = "check_wallet"
                        /\ runs[m].sent[1].type \in {"tool_result", "tool_error"}
                        /\ runs[m].sent[1].text # "declined"))
    /\ [][\A m \in RunIds :
            (runs[m].tool = "check_wallet" /\ runs[m].pc = "gate" /\ runs'[m] # runs[m])
            => runs'[m].pc = "handler"]_vars

\* A check_wallet call answered while a priced call awaits its confirmation.
C15_Witness ==
    \E m, n \in RunIds :
        /\ runs[m].tool = "check_wallet"
        /\ runs[m].pc = "done"
        /\ runs[m].handlerCalls = 1
        /\ Len(runs[m].sent) = 1
        /\ runs[n].pc = "awaiting"
        /\ Len(broadcasts) = 1

\* C16: the confirmations in flight for a connection that has closed are
\* abandoned: from the close on no confirm, cancel or timer settles them, so
\* their calls stay suspended and never enter the handler.
C16_AbandonedOnClose ==
    [][\A m \in RunIds :
        (runs[m].conn \in closed /\ IsPending(runs[m]))
        => IsPending(runs'[m]) /\ runs'[m].handlerCalls = 0]_vars

\* C17: check_wallet never reports a backend failure as an error: whatever
\* the backend does, checkWallet returns a boolean, false for every failure
\* (non-success status, transport failure, unparseable body) and for a
\* wallet the backend does not know; the call is answered with a
\* tool_result whose text says exists:false, never with tool_error or error.
C17_CheckWalletNeverErrors ==
    /\ [](/\ \A outcome \in BackendOutcomes :
                /\ checkWallet(outcome) \in BOOLEAN
                /\ (outcome # "exists" => checkWallet(outcome) = FALSE)
                /\ ~HandlerIsError("check_wallet", outcome)
          /\ \A m \in RunIds :
                runs[m].tool = "check_wallet" =>
                    /\ ~HasReply(m, "tool_error") /\ ~HasReply(m, "error")
                    /\ (runs[m].pc = "done" =>
                            /\ runs[m].sent[1].type = "tool_result"
                            /\ runs[m].sent[1].text \in {"exists:true", "exists:false"}))
    /\ [][\A m \in RunIds, outcome \in BackendOutcomes \ {"exists"} :
            (runs[m].tool = "check_wallet" /\ HandlerReturns(m, outcome))
            => runs'[m].sent
                = <<Reply("tool_result", runs[m].conn, "check_wallet", "exists:false")>>]_vars

\* A check_wallet call answered exists:false in a tool_result.
C17_Witness ==
    \E m \in RunIds :
        /\ runs[m].tool = "check_wallet"
        /\ runs[m].pc = "done"
        /\ runs[m].sent = <<Reply("tool_result", runs[m].conn, "check_wallet", "exists:false")>>

\* C18: when the backend call of a handler other than check_wallet fails,
\* the call ends with exactly one reply, a tool_error that names the tool
\* and carries the error text; the step touches no other run, no table
\* entry and no event, and afterwards the agent still takes every message.
C18_BackendFailureToolError ==
    /\ [][\A m \in RunIds, outcome \in BackendOutcomes :
            (runs[m].tool # "check_wallet" /\ BackendThrows(outcome) /\ HandlerReturns(m, outcome))
            => /\ runs'[m].sent = <<Reply("tool_error", runs[m].conn, runs[m].tool, "failed")>>
               /\ runs'[m].pc = "done"
               /\ \A n \in RunIds \ {m} : runs'[n] = runs[n]
               /\ UNCHANGED <<started, x402Client, closed, confirmations, last, broadcasts>>]_vars
    /\ [](\A m \in RunIds :
            (runs[m].pc = "done" /\ runs[m].handlerCalls = 1 /\ HasReply(m, "tool_error"))
            => TakesEveryMessage)

\* A confirmed send_transaction whose backend call failed, answered with
\* tool_error while another call still awaits its confirmation.
C18_Witness ==
    \E m, n \in RunIds :
        /\ runs[m].tool = "send_transaction"
        /\ runs[m].pc = "done"
        /\ runs[m].handlerCalls = 1
        /\ runs[m].sent = <<Reply("tool_error", runs[m].conn, "send_transaction", "failed")>>
        /\ runs[n].pc = "awaiting"
        /\ confirmations[runs[n].cid] = n

\* C19: a call_tool that names an unknown tool, or whose arguments fail the
\* tool's schema, never enters a handler and is never put to the gate (no
\* confirmation, no payment_required event); it ends with exactly one
\* reply, a tool_error or an error, and afterwards the agent still takes
\* every message.
C19_RejectedBeforeHandler ==
    \A m \in RunIds :
        (runs[m].type = "call_tool" /\ ~PutToGate(m)) =>
            /\ runs[m].pc \in {"gate", "done"}
            /\ runs[m].handlerCalls = 0
            /\ runs[m].cid = 0 /\ runs[m].timer = "none" /\ Events(m) = {}
            /\ (runs[m].pc = "done" =>
                    /\ Len(runs[m].sent) = 1
                    /\ runs[m].sent[1].type \in {"tool_error", "error"}
                    /\ runs[m].sent[1].to = runs[m].conn
                    /\ TakesEveryMessage)

\* A send_transaction with invalid arguments and a call of an unknown tool,
\* both answered.
C19_Witness ==
    \E m, n \in RunIds :
        /\ runs[m].tool = "send_transaction" /\ runs[m].args = "invalid"
        /\ runs[m].pc = "done" /\ runs[m].handlerCalls = 0
        /\ runs[m].sent[1].text = "invalid arguments"
        /\ runs[n].tool = "no_such_tool"
        /\ runs[n].pc = "done"
        /\ runs[n].sent[1].text = "not found"

\* Reading a listed price: the characters of the price texts, and the amount
\* "$i.f" denotes in 1/10000 USD, the unit of Price.
Chars(text) ==
    CASE text = "$0.001" -> <<"$", "0", ".", "0", "0", "1">>
      [] text = "$0.0005" -> <<"$", "0", ".", "0", "0", "0", "5">>
      [] text = "$0.002" -> <<"$", "0", ".", "0", "0", "2">>
      [] text = "$0.005" -> <<"$", "0", ".", "0", "0", "5">>
      [] text = "$0.01" -> <<"$", "0", ".", "0", "1">>
      [] OTHER -> <<>>

Digit(c) ==
    CASE c = "0" -> 0 [] c = "1" -> 1 [] c = "2" -> 2 [] c = "3" -> 3 [] c = "4" -> 4
      [] c = "5" -> 5 [] c = "6" -> 6 [] c = "7" -> 7 [] c = "8" -> 8 [] c = "9" -> 9

\* The value of the digits cs[i..j], read in base ten.
RECURSIVE Number(_, _, _)
Number(cs, i, j) == IF j < i THEN 0 ELSE 10 * Number(cs, i, j - 1) + Digit(cs[j])

RECURSIVE Power(_)
Power(n) == IF n = 0 THEN 1 ELSE 10 * Power(n - 1)

Amount(cs) ==
    LET dot == CHOOSE i \in DOMAIN cs : cs[i] = "."
    IN  Number(cs, 2, dot - 1) * Power(4) + Number(cs, dot + 1, Len(cs)) * Power(4 - (Len(cs) - dot))

\* C20: the /pricing listing names exactly the registered tools, each once;
\* an entry's price is "free" exactly when the tool was registered without
\* a price, and otherwise it is the amount the tool was registered with.
C20_ListingMatchesRegistry ==
    last.body = GetPricing =>
        /\ {last.sent[i].tool : i \in DOMAIN last.sent} = ToolNames
        /\ Len(last.sent) = Cardinality(ToolNames)
        /\ \A i \in DOMAIN last.sent :
            /\ (last.sent[i].text = "free") <=> ~IsPriced(last.sent[i].tool)
            /\ (last.sent[i].text # "free" =>
                    /\ Chars(last.sent[i].text) # <<>>
                    /\ Chars(last.sent[i].text)[1] = "$"
                    /\ Amount(Chars(last.sent[i].text)) = Price(last.sent[i].tool))

\* The listing was fetched while a priced call awaits its confirmation.
C20_Witness ==
    /\ last.body = GetPricing
    /\ Len(last.sent) = Cardinality(ToolNames)
    /\ \E m \in RunIds : runs[m].pc = "awaiting"

\* The messages whose type is none of call_tool, confirm, cancel and
\* list_tools: non-string frames, and the payloads that parse as JSON and
\* carry another type or none (an object with another type, a number,
\* string or boolean, null).
Unrecognized ==
    {message \in Messages :
        /\ message.shape \in {"binary", "object", "scalar", "null"}
        /\ message.type \notin {"call_tool", "confirm", "cancel", "list_tools"}}

\* C21: a message whose type is not one of call_tool, confirm, cancel,
\* list_tools is dropped: the step that takes it sends no reply and changes
\* no table entry, no run and no event.
C21_UnrecognizedDropped ==
    [][\A conn \in Conns, message \in Unrecognized :
        onMessage(conn, message)
        => /\ last'.sent = <<>>
           /\ UNCHANGED <<started, x402Client, closed, confirmations, runs, broadcasts>>]_vars

\* C22: the table holds an entry for an id exactly while that confirmation
\* is pending: every pending call has its resolver in the table under its
\* id and every entry belongs to a pending call; an entry leaves the table
\* in the step in which its call is settled, and a call is settled in the
\* step in which its entry leaves the table.
C22_EntryIffPending ==
    /\ [](/\ \A m \in RunIds :
                IsPending(runs[m]) <=> (runs[m].cid # 0 /\ confirmations[runs[m].cid] = m)
          /\ \A id \in ConfirmationIds :
                confirmations[id] # 0 => IsPending(runs[confirmations[id]]))
    /\ [][/\ \A id \in ConfirmationIds :
                (confirmations[id] # 0 /\ confirmations'[id] # confirmations[id])
                => /\ confirmations'[id] = 0
                   /\ IsSettled(runs'[confirmations[id]])
           /\ \A m \in RunIds :
                (IsPending(runs[m]) /\ ~IsPending(runs'[m]))
                => confirmations[runs[m].cid] = m /\ confirmations'[runs[m].cid] = 0]_vars

\* C23: the confirmationId onPaymentRequired generates is new: at the step
\* that stores the resolver the table holds no entry under the id and no
\* timer armed for the id is left, so no pending resolver is overwritten;
\* and a timer that expires removes no entry but the one of its own call.
C23_FreshId ==
    [][/\ \A m \in RunIds, id \in ConfirmationIds :
            onPaymentRequired(m, id)
            => /\ confirmations[id] = 0
               /\ \A n \in RunIds : runs[n].cid = id => runs[n].timer # "armed"
       /\ \A m \in RunIds :
            (Timeout(m) /\ confirmations' # confirmations)
            => confirmations[runs[m].cid] = m]_vars

\* The step that ends call m sends the type its outcome asks for: the
\* handler's result as tool_error when it is flagged as an error and as
\* tool_result when it is not; a lookup or validation failure as error when
\* callTool threw and as tool_error when it returned an error result; a
\* declined payment as tool_error.
ReplyFollowsOutcome(m) ==
    /\ \A outcome \in BackendOutcomes :
            HandlerReturns(m, outcome)
            => /\ Len(runs'[m].sent) = 1
               /\ runs'[m].sent[1].type
                    = (IF HandlerIsError(runs[m].tool, outcome) THEN "tool_error" ELSE "tool_result")
    /\ \A throws \in BOOLEAN :
            (ToolNotFound(m, throws) \/ InvalidArguments(m, throws))
            => /\ Len(runs'[m].sent) = 1
               /\ runs'[m].sent[1].type = (IF throws THEN "error" ELSE "tool_error")
    /\ (IsPending(runs[m]) /\ runs'[m].promise = "rejected")
            => /\ Len(runs'[m].sent) = 1
               /\ runs'[m].sent[1].type = "tool_error"

CallIds == {m \in RunIds : runs[m].type = "call_tool"}

\* C24 as stated: the reply to a completed call_tool is tool_error exactly
\* when the result is flagged as an error, tool_result otherwise and error
\* exactly when the call threw, and each such reply names the tool called.
C24_EveryReplyNamesTool ==
    /\ [][\A m \in CallIds : ReplyFollowsOutcome(m)]_vars
    /\ [](\A m \in CallIds : \A i \in DOMAIN runs[m].sent :
            runs[m].sent[i].tool = runs[m].tool)

\* C24, amended: the reply to a completed call_tool is tool_error exactly
\* when the result is flagged as an error, tool_result otherwise and error
\* exactly when the call threw; a tool_result or tool_error names the tool
\* called and carries the result text, an error carries the error message
\* and names no tool.
C24_ReplyTypeByOutcome ==
    /\ [][\A m \in CallIds : ReplyFollowsOutcome(m)]_vars
    /\ [](\A m \in CallIds : \A i \in DOMAIN runs[m].sent :
            LET reply == runs[m].sent[i]
            IN  /\ reply.type \in {"tool_result", "tool_error", "error"}
                /\ (reply.type = "tool_result"
                        => reply.tool = runs[m].tool
                            /\ reply.text \in {"ok", "exists:true", "exists:false"})
                /\ (reply.type = "tool_error"
                        => reply.tool = runs[m].tool
                            /\ reply.text \in {"failed", "declined", "not found",
                                                "invalid arguments"})
                /\ (reply.type = "error"
                        => reply.tool = "none"
                            /\ reply.text \in {"not found", "invalid arguments"}))

\* One call ended with error because callTool threw, another with a
\* tool_error that names its tool because the backend failed.
C24_Witness ==
    \E m, n \in CallIds :
        /\ runs[m].pc = "done"
        /\ runs[m].sent[1].type = "error"
        /\ runs[m].sent[1].tool = "none"
        /\ runs[n].pc = "done"
        /\ runs[n].handlerCalls = 1
        /\ runs[n].sent[1] = Reply("tool_error", runs[n].conn, runs[n].tool, "failed")

\* C25: under fairness of timer expiry and of the returns of calls, every
\* call_tool suspended awaiting its confirmation eventually ends with its
\* reply, and a table that holds an entry eventually becomes empty again,
\* whether or not a confirm or cancel is ever sent.
C25_SuspendedCallEnds ==
    /\ \A m \in 1..MaxRuns :
            (m \in RunIds /\ runs[m].pc = "awaiting")
                ~> (m \in RunIds /\ runs[m].pc = "done" /\ Len(runs[m].sent) = 1)
    /\ (\E id \in ConfirmationIds : confirmations[id] # 0)
            ~> (\A id \in ConfirmationIds : confirmations[id] = 0)

\* C26: the payment_required event for an id and the resolver stored under
\* it appear in one step, in which no message is processed: a step that
\* broadcasts an event leaves its call pending with its resolver in the
\* table, and a resolver enters the table only in such a step.  So while a
\* call is pending and its timer has not expired, a confirm of the id it
\* was told finds the call's resolver.
C26_BroadcastStoresResolver ==
    /\ [][/\ broadcasts' # broadcasts
                => LET event == broadcasts'[Len(broadcasts')]
                   IN  /\ broadcasts' = Append(broadcasts, event)
                       /\ confirmations'[event.confirmationId] = event.run
                       /\ IsPending(runs'[event.run])
                       /\ runs'[event.run].cid = event.confirmationId
                       /\ last' = last
           /\ \A id \in ConfirmationIds :
                (confirmations'[id] # confirmations[id] /\ confirmations'[id] # 0)
                => /\ Len(broadcasts') = Len(broadcasts) + 1
                   /\ broadcasts'[Len(broadcasts')].confirmationId = id
                   /\ broadcasts'[Len(broadcasts')].run = confirmations'[id]]_vars
    /\ [](\A m \in RunIds :
            (IsPending(runs[m]) /\ runs[m].timer = "armed")
            => /\ confirmations[runs[m].cid] = m
               /\ \A conn \in Conns \ closed :
                    ENABLED (/\ onMessage(conn, Msg("object", "confirm", "none",
                                                    Key("id", runs[m].cid)))
                             /\ runs'[m].promise = "accepted"))

\* C27: while the agent has no payment client, every call_tool and every
\* list_tools is answered with exactly one error reply on its connection
\* and starts nothing: no call reaches the MCP client, no payment_required
\* event is broadcast and the table stays empty.  Confirm and cancel are
\* taken on every open connection and processed as with a client: the
\* lookup finds no resolver, nothing changes, and the only reply is the
\* parse-failure error for an id that names an inherited property.
C27_NoClientRefuses ==
    /\ [](~x402Client =>
            /\ runs = <<>> /\ broadcasts = <<>>
            /\ \A id \in ConfirmationIds : confirmations[id] = 0
            /\ (last.body.type \in {"call_tool", "list_tools"} =>
                    /\ Len(last.sent) = 1
                    /\ last.sent[1].type = "error"
                    /\ last.sent[1].text = NotInitialized(last.body.type))
            /\ (started => \A conn \in Conns \ closed, message \in ResolveAny \cup Requests :
                                ENABLED onMessage(conn, message)))
    /\ [][~x402Client =>
            /\ \A conn \in Conns, message \in Requests :
                    onMessage(conn, message)
                    => /\ last'.sent = <<Reply("error", conn, "none",
                                               NotInitialized(message.type))>>
                       /\ UNCHANGED <<confirmations, runs, broadcasts>>
            /\ \A conn \in Conns, message \in ResolveAny :
                    onMessage(conn, message)
                    => /\ last'.sent = (IF Lookup(message.confirmationId) = "object"
                                        THEN <<ParseFailure(conn)>> ELSE <<>>)
                       /\ UNCHANGED <<confirmations, runs, broadcasts>>]_vars

\* An agent started without a client has just refused a call_tool.
C27_Witness ==
    /\ started /\ ~x402Client
    /\ last.body = CallTool("send_transaction", "valid")
    /\ last.sent = <<Reply("error", "c1", "none",
                           "Agent not initialized - missing CLIENT_WALLET_PK")>>
    /\ runs = <<>> /\ broadcasts = <<>>

\* C28: the reply "Failed to parse message" is sent only for a message
\* JSON.parse rejects: a message that parses (an object, a number, string
\* or boolean, null; a confirm or cancel with any confirmationId) is
\* dispatched by its type and never answered with that error.
C28_ParseFailureOnlyUnparsable ==
    /\ (\E i \in DOMAIN last.sent : last.sent[i].text = "Failed to parse message")
            => last.body.shape = "malformed"
    /\ \A m \in RunIds : \A i \in DOMAIN runs[m].sent :
            runs[m].sent[i].text # "Failed to parse message"

\* C29: every reply to a call_tool goes to the connection the call arrived
\* on: each is one conn.send on that connection, none is broadcast, and a
\* confirm or cancel that arrives on another connection and settles the
\* call gets no reply itself, the call's reply still going to the call's
\* connection.
C29_ReplyToCaller ==
    /\ [](/\ \A m \in CallIds : \A i \in DOMAIN runs[m].sent :
                /\ runs[m].sent[i].to = runs[m].conn
                /\ runs[m].sent[i].to \in Conns
          /\ \A i \in DOMAIN broadcasts : broadcasts[i].type = "payment_required")
    /\ [][\A m \in CallIds, conn \in Conns :
            (/\ IsPending(runs[m])
             /\ conn # runs[m].conn
             /\ ~IsPending(runs'[m])
             /\ \E message \in ResolveMsgs(runs[m].cid) : onMessage(conn, message))
            => /\ last'.sent = <<>>
               /\ \A i \in DOMAIN runs'[m].sent : runs'[m].sent[i].to = runs[m].conn]_vars

\* A call whose connection had closed before its payment_required event was
\* broadcast, so that the confirm that settled it arrived on the other
\* connection: its one reply went to the connection of the call.
C29_Witness ==
    \E m \in CallIds, i \in DOMAIN broadcasts :
        /\ broadcasts[i].run = m
        /\ broadcasts[i].to = Conns \ {runs[m].conn}
        /\ runs[m].resolvedBy = "confirm"
        /\ runs[m].pc = "done"
        /\ Len(runs[m].sent) = 1
        /\ runs[m].sent[1].to = runs[m].conn
====
